---- MODULE Spec2Model ----
(***************************************************************************)
(* Model of DocDownloader (src/src/downloader.js) as driven by the         *)
(* `download` command (src/unnamed/part_001).                              *)
(*                                                                         *)
(* A URL string is a sequence of tokens, e.g. "https://h/a/" is            *)
(* <<"https:", "/", "/", "h", "/", "a", "/">>.  String concatenation is    *)
(* sequence concatenation; the regular expressions of the source are       *)
(* evaluated on tokens.  The token alphabet is chosen so that every        *)
(* literal of a pattern of the source ("/", ".md", "github.com", "blob",   *)
(* "api", "#", ...) is a whole token and never straddles two tokens.       *)
(***************************************************************************)
EXTENDS Integers, Sequences, FiniteSets, TLC

(***************************************************************************)
(* Bounds of the model                                                     *)
(***************************************************************************)
\* the depth option given to the constructor ranges over 0..MaxOptDepth
MaxOptDepth == 1
\* at most MaxFaults transient faults (failed GETs, failed file writes) per run
MaxFaults == 3

(***************************************************************************)
(* Program constants                                                       *)
(***************************************************************************)
defaultMaxDepth == 3
\* mutant of maxRetries: one attempt too many
maxRetries_OffByOne == 3 + 1
maxRetries == 3
retryDelay == 1000
pageDelay == 500

(***************************************************************************)
(* String helpers on token sequences                                       *)
(***************************************************************************)
\* the element of a one-element set; The({F(x) : x \in {e}}) is F at the
\* value of e, as in `const x = e; ... F(x)`
The(S) == CHOOSE y \in S : TRUE

Last(s) == s[Len(s)]

EndsWith(s, tok) == Len(s) > 0 /\ Last(s) = tok

MatchAt(s, i, p) == i + Len(p) - 1 <= Len(s) /\ SubSeq(s, i, i + Len(p) - 1) = p

\* some pattern of the set P occurs in s
Contains(s, P) == \E i \in 1..Len(s) : \E p \in P : MatchAt(s, i, p)

\* String.prototype.replace with a non-global pattern: the first occurrence
\* of one of the alternatives P (all of length n) is replaced by rep
ReplaceFirst(s, P, n, rep) ==
  IF Contains(s, P)
  THEN LET i == CHOOSE k \in 1..Len(s) :
                  /\ \E p \in P : MatchAt(s, k, p)
                  /\ \A j \in 1..(k - 1) : ~ \E p \in P : MatchAt(s, j, p)
       IN SubSeq(s, 1, i - 1) \o rep \o SubSeq(s, i + n, Len(s))
  ELSE s

\* str.replace(/\/$/, '')
StripTrailingSlash(s) == IF EndsWith(s, "/") THEN SubSeq(s, 1, Len(s) - 1) ELSE s

(***************************************************************************)
(* URL parsing (the WHATWG URL class of node)                              *)
(***************************************************************************)
Delims == {"/", "?", "#"}

\* new URL(href) throws unless href is "https://" followed by a host
ParseOk(u) == Len(u) >= 4 /\ SubSeq(u, 1, 3) = <<"https:", "/", "/">> /\ u[4] \notin Delims

\* index of the first delimiter after the host, Len(u)+1 when there is none
HostEnd(u) ==
  IF \E i \in 4..Len(u) : u[i] \in Delims
  THEN CHOOSE i \in 4..Len(u) : u[i] \in Delims /\ \A j \in 4..(i - 1) : u[j] \notin Delims
  ELSE Len(u) + 1

Hostname(u) == SubSeq(u, 4, HostEnd(u) - 1)

\* index of the first "?" or "#", Len(u)+1 when there is none
PathEnd(u) ==
  IF \E i \in 4..Len(u) : u[i] \in {"?", "#"}
  THEN CHOOSE i \in 4..Len(u) : u[i] \in {"?", "#"} /\ \A j \in 4..(i - 1) : u[j] \notin {"?", "#"}
  ELSE Len(u) + 1

\* URL.pathname: "/" when the URL has no path
Pathname(u) ==
  IF HostEnd(u) <= Len(u) /\ u[HostEnd(u)] = "/"
  THEN SubSeq(u, HostEnd(u), PathEnd(u) - 1)
  ELSE <<"/">>

\* URL.href: the serialised URL, with "/" for an empty path
Href(u) ==
  SubSeq(u, 1, HostEnd(u) - 1) \o Pathname(u) \o SubSeq(u, PathEnd(u), Len(u))

(***************************************************************************)
(* Pure functions of DocDownloader                                         *)
(***************************************************************************)
Null == <<>>

\* checkForMarkdownVersion: the ordered list possibleMdUrls
possibleMdUrls(url) ==
  LET baseUrl == StripTrailingSlash(url)
  IN << baseUrl \o <<".md">>,
        baseUrl \o <<"/", "index", ".md">>,
        baseUrl \o <<"/", "README", ".md">>,
        baseUrl \o <<"/", "content", ".md">>,
        IF EndsWith(url, ".html") \/ EndsWith(url, ".htm")
          THEN SubSeq(url, 1, Len(url) - 1) \o <<".md">> ELSE url,
        url \o <<".md">>,
        url \o <<"/", "index", ".md">>,
        The({ ReplaceFirst(raw, {<<"/", "blob", "/">>}, 3, <<"/">>) :
                raw \in {ReplaceFirst(url, {<<"github.com">>}, 1, <<"raw.githubusercontent.com">>)} }),
        ReplaceFirst(url, {<<"/", "blob", "/">>}, 3, <<"/", "raw", "/">>),
        ReplaceFirst(baseUrl, {<<"/", "doc", "/">>, <<"/", "docs", "/">>}, 3, <<"/", "docs", "/">>)
          \o <<".md">>,
        ReplaceFirst(baseUrl, {<<"/", "guid", "/">>, <<"/", "guide", "/">>}, 3, <<"/", "guide", "/">>)
          \o <<".md">> >>

\* shouldSkipUrl: the fixed skipPatterns list
SkipExtensions == {".pdf", ".jpg", ".jpeg", ".png", ".gif", ".svg", ".ico", ".css", ".js"}

shouldSkipUrl(url) ==
  \/ (Len(url) > 0 /\ Last(url) \in SkipExtensions)
  \/ Contains(url, {<<"#">>})
  \/ Contains(url, {<<"/", "api", "/">>})
  \/ Contains(url, {<<"/", "login">>})
  \/ Contains(url, {<<"/", "register">>})
  \/ Contains(url, {<<"/", "admin">>})
  \/ Contains(url, {<<"/", "search">>})
  \/ Contains(url, {<<"mailto:">>})
  \/ Contains(url, {<<"tel:">>})

\* getSiteName: a leading "www." dropped, every dot replaced by "_"
DotFree(tok) ==
  CASE tok = "github.com" -> "github_com"
    [] tok = "raw.githubusercontent.com" -> "raw_githubusercontent_com"
    [] tok = ".md" -> "_md"
    [] OTHER -> tok

getSiteName(hostname) ==
  The({ [i \in 1..Len(h) |-> DotFree(h[i])] :
          h \in {IF Len(hostname) > 0 /\ hostname[1] = "www." THEN Tail(hostname) ELSE hostname} })

outputDir == <<"downloads">>

\* download: siteDir = path.join(this.outputDir, siteName)
SiteDir(startUrl) == The({ outputDir \o <<"/">> \o getSiteName(h) : h \in {Hostname(startUrl)} })

IllegalChars == {"<", ">", ":", "\"", "|", "?", "*"}

\* the indices 1..n in order
Indices(n) == [i \in 1..n |-> i]

\* path.join normalisation: runs of "/" collapse to one
CollapseSlashes(s) ==
  The({ [k \in 1..Len(keep) |-> s[keep[k]]] :
          keep \in {SelectSeq(Indices(Len(s)),
                              LAMBDA i : ~ (s[i] = "/" /\ i < Len(s) /\ s[i + 1] = "/"))} })

\* mutant of UrlPath: the root pathname is not replaced by "/index"
UrlPath_NoIndex(url) == Pathname(url)

\* lines 471-477: the pathname, "/index" for the root
UrlPath(url) ==
  The({ IF p = <<"/">> \/ p = <<>> THEN <<"/", "index">> ELSE p : p \in {Pathname(url)} })

\* lines 479-485: no trailing slash, and the .md extension
WithMdExtension(urlPath) ==
  The({ IF EndsWith(p, ".md") THEN p ELSE p \o <<".md">> : p \in {StripTrailingSlash(urlPath)} })

\* line 488: no leading slash, illegal characters replaced by "_"
SafePath(urlPath) ==
  The({ [i \in 1..Len(p) |-> IF p[i] \in IllegalChars THEN "_" ELSE p[i]] :
          p \in {IF Len(urlPath) > 0 /\ urlPath[1] = "/" THEN Tail(urlPath) ELSE urlPath} })

getFilePath(url, siteDir) ==
  The({ CollapseSlashes(joined) :
          joined \in { siteDir \o <<"/">> \o safePath :
                       safePath \in { SafePath(pathname) :
                                      pathname \in {WithMdExtension(UrlPath(url))} } } })

(***************************************************************************)
(* Documents.  A body is a record [kind, id]:                              *)
(*   "html"  an HTML document (starts with a doctype), id names it         *)
(*   "md"    markdown text with markdown patterns                          *)
(*   "short" text of fewer than 10 characters                              *)
(*   "none"  no body (response.data is the empty string)                   *)
(* extractContent and turndown are kept symbolic: their results name the   *)
(* document they were computed from.                                       *)
(***************************************************************************)
NoBody == [kind |-> "none", id |-> <<>>]
Empty == [kind |-> "empty", id |-> <<>>]
Doc(u) == [kind |-> "html", id |-> Href(u)]
MdBody(u) == [kind |-> "md", id |-> u]
ShortBody == [kind |-> "short", id |-> <<>>]
OldContent == [kind |-> "old", id |-> <<>>]

\* content.startsWith('<!DOCTYPE html') || content.startsWith('<html')
StartsWithHtml(body) == body.kind = "html"

isLikelyMarkdown(body) == body.kind = "md"

CTypes == {"", "text/html; charset=utf-8", "text/plain", "text/markdown",
           "application/octet-stream", "application/json"}

\* contentType.includes(...)
IncludesTextHtml(ct) == ct = "text/html; charset=utf-8"
IncludesTextPlain(ct) == ct = "text/plain"
IncludesMarkdown(ct) == ct = "text/markdown"
IncludesOctetStream(ct) == ct = "application/octet-stream"

\* mutant of ProbeAccepts: without a body the URL suffix is not looked at
ProbeAccepts_NoSuffix(r, mdUrl) ==
  /\ r.status \in {200, 206}
  /\ IF r.data.kind # "none"
     THEN isLikelyMarkdown(r.data)
          /\ ~ (StartsWithHtml(r.data) \/ IncludesTextHtml(r.ctype))
     ELSE /\ \/ IncludesTextPlain(r.ctype)
             \/ IncludesMarkdown(r.ctype)
             \/ IncludesOctetStream(r.ctype)
             \/ r.ctype = ""
          /\ ~ IncludesTextHtml(r.ctype)

\* checkForMarkdownVersion, lines 179-208: is the candidate accepted
ProbeAccepts(r, mdUrl) ==
  /\ r.status \in {200, 206}
  /\ IF r.data.kind # "none"
     THEN isLikelyMarkdown(r.data)
          /\ ~ (StartsWithHtml(r.data) \/ IncludesTextHtml(r.ctype))
     ELSE /\ \/ IncludesTextPlain(r.ctype)
             \/ IncludesMarkdown(r.ctype)
             \/ IncludesOctetStream(r.ctype)
             \/ r.ctype = ""
             \/ EndsWith(mdUrl, ".md")
          /\ ~ IncludesTextHtml(r.ctype)

\* downloadMarkdown, lines 249-251
isActuallyHtml(r) == StartsWithHtml(r.data) \/ IncludesTextHtml(r.ctype)

(***************************************************************************)
(* The environment: two small sites and what their servers answer          *)
(***************************************************************************)
U(host, rest) == <<"https:", "/", "/">> \o host \o rest

RootNS == U(<<"h">>, <<>>)
Root == U(<<"h">>, <<"/">>)
PA == U(<<"h">>, <<"/", "a">>)
PAS == U(<<"h">>, <<"/", "a", "/">>)
PC == U(<<"h">>, <<"/", "c">>)
PD == U(<<"h">>, <<"/", "d">>)
Ext == U(<<"x">>, <<"/">>)
Frag == U(<<"h">>, <<"/", "a", "#", "s">>)
Api == U(<<"h">>, <<"/", "api", "/", "v">>)
Pdf == U(<<"h">>, <<"/", "g", ".pdf">>)
GH == U(<<"github.com">>, <<"/", "o", "/", "blob", "/", "r">>)
GH2 == U(<<"github.com">>, <<"/", "o", "/", "blob", "/", "s">>)
\* an href that new URL(href, currentUrl) rejects
Invalid == <<"https:", "/", "/">>

\* the URLs download() is started with
Seeds == {Root, GH}

\* the URLs that serve an HTML page
Pages == {RootNS, Root, PA, PAS, PC, PD, Ext, GH, GH2}

\* the URLs that serve a markdown file
MdFiles == { U(<<"h">>, <<"/", "index", ".md">>),
             U(<<"h">>, <<"/", "a", ".md">>),
             U(<<"raw.githubusercontent.com">>, <<"/", "o", "/", "r">>) }

\* the URLs that the robots.txt of the site h disallows for every agent
Disallowed == {PD}

\* the a[href] targets of a page, resolved against the page URL, in document order
Links(u) ==
  CASE Href(u) = Root -> <<PA, Ext, Frag, PA, Root, Invalid, PAS, Api, PD>>
    [] u = PA -> <<Root, PC, PD, Pdf>>
    [] u = PAS -> <<PA, PC>>
    [] u = PC -> <<PA, Root>>
    [] u = PD -> <<>>
    [] u = GH -> <<GH2, Ext>>
    [] u = GH2 -> <<GH>>
    [] OTHER -> <<>>

Served(u) == u \in Pages \cup MdFiles

Fail == [status |-> 0, ctype |-> "", data |-> NoBody]

Resp(st, ct, d) == [status |-> st, ctype |-> ct, data |-> d]

\* what the primary GET of a page URL may return: the page, or a failure
\* (timeout, connection reset, status >= 400)
PageResponses(u) ==
  {Fail} \cup (IF u \in Pages THEN {Resp(200, "text/html; charset=utf-8", Doc(u))} ELSE {})

\* what a HEAD of a probe candidate may return (no body)
HeadResponses(m) ==
  {Fail}
  \cup (IF m \in Pages THEN {Resp(200, "text/html; charset=utf-8", NoBody)} ELSE {})
  \cup (IF m \in MdFiles THEN {Resp(st, ct, NoBody) : st \in {200, 204}, ct \in CTypes} ELSE {})

\* what the ranged GET of a probe candidate may return
RangeResponses(m) ==
  {Fail}
  \cup (IF m \in Pages THEN {Resp(200, "text/html; charset=utf-8", Doc(m))} ELSE {})
  \cup (IF m \in MdFiles
        THEN {Resp(st, ct, d) : st \in {200, 206}, ct \in CTypes,
                                d \in {MdBody(m), Doc(m), ShortBody, NoBody}}
        ELSE {})

\* the markdown URLs behind which a catch-all route serves HTML
CatchAll == { U(<<"h">>, <<"/", "a", ".md">>) }

\* what the full GET of the accepted candidate may return for page p: the
\* markdown file; behind a catch-all route the HTML of p or another HTML
\* document, declared as HTML or not
MdResponses(m, p) ==
  {Fail}
  \cup (IF m \in CatchAll
        THEN {Resp(200, ct, d) : ct \in {"", "text/html; charset=utf-8"}, d \in {Doc(p), Doc(m)}}
        ELSE {Resp(200, ct, MdBody(m)) : ct \in {"", "text/markdown"}})

(***************************************************************************)
(* State                                                                   *)
(***************************************************************************)
VARIABLES
  options,      \* the options object given to the constructor
  maxDepth,     \* this.maxDepth
  siteConfig,   \* this.siteConfig: hostname -> site record
  files,        \* the output directory: file path -> content
  pc,           \* where download() stands
  startUrl,     \* the argument of download()
  queue,        \* this.queue
  visited,      \* this.visited
  cur,          \* processPage: the entry being processed
  attempt,      \* fetchPage: the attempt counter
  html,         \* processPage: response.data of the page
  cand,         \* checkForMarkdownVersion: index into possibleMdUrls
  mdUrl,        \* processPage: the result of checkForMarkdownVersion
  processed,    \* history: the entries processPage was entered with, in order
  writes,       \* history: the fs.writeFile calls of this run, in order
  failed,       \* history: the URLs whose fetchPage returned null
  lastReq,      \* history: the HTTP request issued by the latest step
  lastSave,     \* history: the outcome of saveMarkdown in the latest step
  waited,       \* history: the delay awaited by the latest step, in ms
  lastBody,     \* history: the body of the response received by the latest step
  logged,       \* history: the console lines of the latest step, by kind
  faults,       \* environment: the transient faults so far
  urls,         \* bulk command: the sites still to download, in order
  earlier,      \* history: the URLs processed by earlier runs of this instance
  dom,          \* extractContent: the parsed document $ it is called with
  extracted     \* extractContent: its return value

config == <<options, maxDepth, siteConfig>>
locals == <<cur, attempt, html, cand, mdUrl>>
bulk == <<urls, earlier>>
extraction == <<dom, extracted>>
history == <<processed, writes, failed, lastReq, lastSave, waited, lastBody, logged>>
\* a transient fault may still happen
MayFault == faults < MaxFaults
vars == <<options, maxDepth, siteConfig, files, pc, startUrl, queue, visited,
          cur, attempt, html, cand, mdUrl,
          processed, writes, failed, lastReq, lastSave, waited, lastBody, logged, faults,
          urls, earlier, dom, extracted>>

NoEntry == [url |-> <<>>, depth |-> 0]
NoReq == [method |-> "none", url |-> <<>>]
NoSave == [result |-> "none", page |-> <<>>, path |-> <<>>]
Req(method, url) == [method |-> method, url |-> url]

\* no document parsed, nothing extracted
NoMatches == [sel \in {} |-> 0]
NoDom == [matches |-> NoMatches, blocks |-> <<>>]
NoContent == [from |-> "none", of |-> <<>>]

NoConfig == [h \in {} |-> [preferMarkdown |-> FALSE]]
\* the config files: none, or one with a record for the site h
SiteConfigs ==
  { NoConfig,
    (<<"h">> :> [preferMarkdown |-> TRUE, maxDepth |-> 2, skipPatterns |-> {<<"/", "d">>}]) }

NoFiles == [p \in {} |-> [header |-> <<>>, body |-> OldContent]]
OldFile == [header |-> <<>>, body |-> OldContent]
\* what the output directory may hold before the run
InitialFiles ==
  { NoFiles,
    (getFilePath(Root, SiteDir(Root)) :> OldFile) @@ (getFilePath(PC, SiteDir(Root)) :> OldFile) }

\* the download command (part_001, lines 34-39) passes maxDepth, outputDir,
\* force and configFile, and no includeMetadata
\* constructor, line 11: this.maxDepth = options.maxDepth || 3
Constructor_maxDepth(given) == IF given = 0 THEN defaultMaxDepth ELSE given

Force == options.force
IncludeMetadata == options.includeMetadata

\* this.siteConfig[hostname] || {}
ConfigOf(hostname) ==
  IF hostname \in DOMAIN siteConfig THEN siteConfig[hostname] ELSE [preferMarkdown |-> FALSE]

Init ==
  /\ options \in [maxDepth : 0..MaxOptDepth, force : BOOLEAN, includeMetadata : {FALSE}]
  /\ maxDepth = Constructor_maxDepth(options.maxDepth)
  /\ siteConfig \in SiteConfigs
  /\ files \in InitialFiles
  /\ pc = "idle"
  /\ startUrl = <<>>
  /\ queue = <<>>
  /\ visited = {}
  /\ cur = NoEntry
  /\ attempt = 0
  /\ html = NoBody
  /\ cand = 0
  /\ mdUrl = Null
  /\ processed = <<>>
  /\ writes = <<>>
  /\ failed = {}
  /\ lastReq = NoReq
  /\ lastSave = NoSave
  /\ waited = 0
  /\ lastBody = NoBody
  /\ logged = <<>>
  /\ faults = 0
  /\ urls = <<>>
  /\ earlier = {}
  /\ dom = NoDom
  /\ extracted = NoContent

(***************************************************************************)
(* findAndQueueLinks                                                       *)
(***************************************************************************)
Range(s) == {s[i] : i \in 1..Len(s)}

\* mutant of LinkKept: the hostname test is missing
LinkKept_AnyHost(href, base) ==
  /\ ParseOk(href)
  /\ ~ shouldSkipUrl(Href(href))

\* lines 432-440: is the link added to the set `links`
LinkKept(href, base) ==
  /\ ParseOk(href)
  /\ Hostname(href) = Hostname(base)
  /\ ~ shouldSkipUrl(Href(href))

\* the set `links` in insertion order: every kept link, at its first occurrence
UniqueLinks(hrefs, base) ==
  The({ [k \in 1..Len(first) |-> Href(hrefs[first[k]])] :
          first \in {SelectSeq(Indices(Len(hrefs)),
                               LAMBDA i : /\ LinkKept(hrefs[i], base)
                                          /\ \A j \in 1..(i - 1) : Href(hrefs[j]) # Href(hrefs[i]))} })

\* mutant of Pushed: only the first new link is pushed
Pushed_FirstOnly(links, vis, depth) ==
  The({ [k \in 1..(IF fresh = <<>> THEN 0 ELSE 1) |-> [url |-> fresh[k], depth |-> depth + 1]] :
          fresh \in {SelectSeq(links, LAMBDA l : l \notin vis)} })

\* lines 447-451: the entries pushed
Pushed(links, vis, depth) ==
  The({ [k \in 1..Len(fresh) |-> [url |-> fresh[k], depth |-> depth + 1]] :
          fresh \in {SelectSeq(links, LAMBDA l : l \notin vis)} })

\* mutant of findAndQueueLinks: the new entries go to the front of the queue
findAndQueueLinks_Unshift(q, vis, currentUrl, base, currentDepth) ==
  The({ Pushed(links, vis, currentDepth) \o q :
          links \in { UniqueLinks(hrefs, base) : hrefs \in {Links(currentUrl)} } })

findAndQueueLinks(q, vis, currentUrl, base, currentDepth) ==
  The({ q \o Pushed(links, vis, currentDepth) :
          links \in { UniqueLinks(hrefs, base) : hrefs \in {Links(currentUrl)} } })

(***************************************************************************)
(* download(startUrl)                                                      *)
(***************************************************************************)
\* mutant of Cleared: the visited set of the earlier run is kept
Cleared_Kept(set) == set

\* line 63: this.visited.clear()
Cleared(set) == {}

\* the URLs processPage was entered with in this run
ProcessedUrls == {processed[k].url : k \in 1..Len(processed)}

\* lines 56-66, one call of download(): fs.ensureDir(siteDir) may reject,
\* which rejects download() before the reset; the histories of a run start
\* empty
BeginRun(url) ==
  /\ startUrl' = url
  /\ lastReq' = NoReq /\ lastSave' = NoSave /\ waited' = 0 /\ lastBody' = NoBody
  /\ \E dirOk \in BOOLEAN :
       IF dirOk
       THEN /\ visited' = Cleared(visited)
            /\ queue' = <<[url |-> url, depth |-> 0]>>
            /\ pc' = "loop"
            /\ logged' = <<"Output directory">>
       ELSE /\ pc' = "rejected"
            /\ logged' = <<>>
            /\ UNCHANGED <<visited, queue>>
  /\ processed' = <<>> /\ writes' = <<>> /\ failed' = {}
  /\ earlier' = earlier \cup ProcessedUrls
  /\ UNCHANGED <<config, extraction, files, locals, faults>>

\* the download command: one call of download(options.url)
Download(url) ==
  /\ pc = "idle"
  /\ BeginRun(url)
  /\ UNCHANGED urls

\* mutant of BulkContinues: a rejected download() ends the bulk loop
BulkContinues_StopOnReject == pc \in {"idle", "returned"}

\* part_001, lines 81-88: the for loop goes on when download() has resolved
\* or its rejection was caught
BulkContinues == pc \in {"idle", "returned", "rejected"}

\* the bulk command, one turn of its for loop: await downloader.download(url)
BulkDownload ==
  /\ BulkContinues
  /\ urls # <<>>
  /\ BeginRun(Head(urls))
  /\ urls' = Tail(urls)

\* mutant of Discarded: the visited test is missing
Discarded_NoVisitedTest(e) == e.depth > maxDepth

\* line 71: the entry is dropped without being processed
Discarded(e) == e.url \in visited \/ e.depth > maxDepth

\* mutant of Shift: the head is read but not removed
Shift_Peek(q) == q

\* line 69: queue.shift()
Shift(q) == Tail(q)

\* mutant of Visit: the URL is not recorded when processing begins
Visit_Forgotten(vis, url) == vis

\* line 84: this.visited.add(url)
Visit(vis, url) == vis \cup {url}

\* lines 68-73, 84: one turn of the loop, up to the first await of processPage
Dequeue ==
  /\ pc = "loop"
  /\ queue # <<>>
  /\ LET e == Head(queue)
     IN /\ queue' = Shift(queue)
        /\ IF Discarded(e)
           THEN /\ logged' = <<>>
                /\ UNCHANGED <<pc, visited, cur, processed>>
           ELSE /\ visited' = Visit(visited, e.url)
                /\ cur' = e
                /\ processed' = Append(processed, e)
                /\ logged' = <<"Processing">>
                /\ pc' = "delay"
  /\ lastReq' = NoReq /\ lastSave' = NoSave /\ waited' = 0 /\ lastBody' = NoBody
  /\ UNCHANGED <<config, bulk, extraction, files, startUrl, attempt, html, cand, mdUrl, writes, failed, faults>>

\* line 68: the queue is empty, download() resolves
Return ==
  /\ pc = "loop"
  /\ queue = <<>>
  /\ pc' = "returned"
  /\ lastReq' = NoReq /\ lastSave' = NoSave /\ waited' = 0 /\ lastBody' = NoBody /\ logged' = <<>>
  /\ UNCHANGED <<config, bulk, extraction, files, startUrl, queue, visited, locals, processed, writes, failed,
                 faults>>

\* line 89: await this.delay(500)
Delay ==
  /\ pc = "delay"
  /\ waited' = pageDelay
  /\ attempt' = 1
  /\ pc' = "fetch"
  /\ lastReq' = NoReq /\ lastSave' = NoSave /\ lastBody' = NoBody
  /\ logged' = <<>>
  /\ UNCHANGED <<config, bulk, extraction, files, startUrl, queue, visited, cur, html, cand, mdUrl,
                 processed, writes, failed, faults>>

\* mutant of EndPage: an exception of saveMarkdown leaves the loop and
\* rejects download()
EndPage_Uncaught ==
  /\ pc' = IF lastSave'.result = "threw" THEN "rejected" ELSE "loop"
  /\ cur' = NoEntry /\ attempt' = 0 /\ html' = NoBody /\ cand' = 0 /\ mdUrl' = Null

\* processPage returns, or its exception is caught at line 77: its locals
\* are gone, the loop goes on
EndPage ==
  /\ pc' = "loop"
  /\ cur' = NoEntry /\ attempt' = 0 /\ html' = NoBody /\ cand' = 0 /\ mdUrl' = Null

\* mutant of LinksWanted: pages at the depth bound queue their links too
LinksWanted_AtBound(depth) == depth <= maxDepth

\* lines 98-100: links are queued from pages below the depth bound
LinksWanted(depth) == depth < maxDepth

\* mutant of Backoff: the same delay after every failed attempt
Backoff_Constant(n) == retryDelay

\* line 310: await this.delay(retryDelay * attempt)
Backoff(n) == retryDelay * n

\* fetchPage, lines 276-311, one attempt; then lines 93-100 of processPage
FetchPage ==
  /\ pc = "fetch"
  /\ lastReq' = Req("GET", cur.url)
  /\ lastSave' = NoSave
  /\ \E r \in PageResponses(cur.url) :
       /\ (r = Fail /\ cur.url \in Pages) => MayFault
       /\ faults' = IF r = Fail /\ cur.url \in Pages THEN faults + 1 ELSE faults
       /\ lastBody' = r.data
       /\ IF r # Fail
          THEN /\ html' = r.data
               /\ logged' = <<>>
               /\ queue' = IF LinksWanted(cur.depth)
                           THEN findAndQueueLinks(queue, visited, cur.url, startUrl, cur.depth)
                           ELSE queue
               /\ cand' = 1
               /\ attempt' = 0
               /\ pc' = "head"
               /\ waited' = 0
               /\ UNCHANGED <<cur, mdUrl, failed>>
          ELSE IF attempt = maxRetries
               THEN /\ EndPage
                    /\ logged' = <<"Failed to fetch">>
                    /\ failed' = failed \cup {cur.url}
                    /\ waited' = 0
                    /\ UNCHANGED queue
               ELSE /\ attempt' = attempt + 1
                    /\ logged' = <<"Attempt failed">>
                    /\ waited' = Backoff(attempt)
                    /\ UNCHANGED <<pc, queue, cur, html, cand, mdUrl, failed>>
  /\ UNCHANGED <<config, bulk, extraction, files, startUrl, visited, processed, writes>>

(***************************************************************************)
(* checkForMarkdownVersion                                                 *)
(***************************************************************************)
Candidate == possibleMdUrls(cur.url)[cand]

\* mutant of NextCandidate: the first candidate that does not qualify ends
\* the probe
NextCandidate_GiveUp(mdUrls) ==
  /\ logged' = <<>>
  /\ cand' = 0 /\ pc' = "fallback" /\ mdUrl' = Null

\* the for loop moves to the next candidate, or ends with `return null`
NextCandidate(mdUrls) ==
  /\ logged' = <<>>
  /\ IF cand < Len(mdUrls)
     THEN cand' = cand + 1 /\ pc' = "head" /\ UNCHANGED mdUrl
     ELSE cand' = 0 /\ pc' = "fallback" /\ mdUrl' = Null

\* lines 179-208 on a response, then line 106-107 of processPage
ProbeDecide(r, mdUrls) ==
  IF ProbeAccepts(r, mdUrls[cand])
  THEN cand' = 0 /\ pc' = "download" /\ mdUrl' = mdUrls[cand]
       /\ logged' = <<"Found markdown version">>
  ELSE NextCandidate(mdUrls)

\* mutant of HeadFailed: every HEAD answer other than 200 counts as failed
HeadFailed_Not200(r) == r.status # 200

\* lines 160-167: axios.head rejected (network error, timeout, or a status
\* outside 2xx), which catch (headError) takes
HeadFailed(r) == r = Fail

\* lines 160-166: axios.head(mdUrl) answered with r
HeadStep(r, mdUrls) ==
  /\ pc = "head"
  /\ lastSave' = NoSave /\ waited' = 0
  /\ lastBody' = NoBody
  /\ lastReq' = Req("HEAD", mdUrls[cand])
  /\ IF HeadFailed(r)
     THEN pc' = "get" /\ logged' = <<>> /\ UNCHANGED <<cand, mdUrl>>
     ELSE ProbeDecide(r, mdUrls)
  /\ UNCHANGED <<config, bulk, extraction, files, startUrl, queue, visited, cur, attempt, html,
                 processed, writes, failed, faults>>

ProbeHead ==
  /\ pc = "head"
  /\ \E mdUrls \in {possibleMdUrls(cur.url)} :
       \E r \in HeadResponses(mdUrls[cand]) : HeadStep(r, mdUrls)

\* lines 167-177: the HEAD failed, axios.get(mdUrl) with a Range header,
\* answered with r; a failure here is caught at line 209
GetStep(r, mdUrls) ==
  /\ pc = "get"
  /\ lastSave' = NoSave /\ waited' = 0
  /\ lastReq' = Req("GET-RANGE", mdUrls[cand])
  /\ (r = Fail /\ Served(mdUrls[cand])) => MayFault
  /\ faults' = IF r = Fail /\ Served(mdUrls[cand]) THEN faults + 1 ELSE faults
  /\ lastBody' = r.data
  /\ IF r = Fail THEN NextCandidate(mdUrls) ELSE ProbeDecide(r, mdUrls)
  /\ UNCHANGED <<config, bulk, extraction, files, startUrl, queue, visited, cur, attempt, html,
                 processed, writes, failed>>

ProbeGet ==
  /\ pc = "get"
  /\ \E mdUrls \in {possibleMdUrls(cur.url)} :
       \E r \in RangeResponses(mdUrls[cand]) : GetStep(r, mdUrls)

(***************************************************************************)
(* extractContent, turndown, saveMarkdown                                  *)
(***************************************************************************)
\* extractContent, lines 316-322, then the selector chain kept symbolic
extractContent(doc, url) ==
  IF ConfigOf(Hostname(url)).preferMarkdown
  THEN Empty
  ELSE [kind |-> "fragment", id |-> <<doc.kind>> \o doc.id]

\* this.turndown.turndown(content), symbolic; the empty string converts to itself
turndown(content) ==
  IF content = Empty THEN Empty ELSE [kind |-> "converted", id |-> content.id]

\* mutant of SkipExisting: an existing file is never a reason to skip
SkipExisting_Never(filePath) == FALSE

\* mutant of SkipExisting: the force test is inverted
SkipExisting_ForceInverted(filePath) == Force /\ filePath \in DOMAIN files

\* line 494: the write is skipped
SkipExisting(filePath) == ~ Force /\ filePath \in DOMAIN files

\* lines 500-504: the file content (the timestamp of the header is left out)
FileContent(markdown, sourceUrl) ==
  [header |-> IF IncludeMetadata THEN sourceUrl ELSE <<>>, body |-> markdown]

\* saveMarkdown; ensureDir or writeFile may throw (fsOk = FALSE)
saveMarkdown(markdown, filePath, sourceUrl, fsOk) ==
  IF SkipExisting(filePath)
  THEN /\ lastSave' = [result |-> "skipped", page |-> cur.url, path |-> filePath]
       /\ UNCHANGED <<files, writes>>
  ELSE IF fsOk
  THEN /\ files' = [p \in DOMAIN files \cup {filePath} |->
                      IF p = filePath THEN FileContent(markdown, sourceUrl) ELSE files[p]]
       /\ writes' = Append(writes, [page |-> cur.url, path |-> filePath,
                                    content |-> FileContent(markdown, sourceUrl)])
       /\ lastSave' = [result |-> "written", page |-> cur.url, path |-> filePath]
  ELSE /\ lastSave' = [result |-> "threw", page |-> cur.url, path |-> filePath]
       /\ UNCHANGED <<files, writes>>

\* the file system may fail a write while faults remain
FsOutcomes == {TRUE} \cup (IF MayFault THEN {FALSE} ELSE {})

\* saveMarkdown's console line, or that of the catch block its exception reaches
SaveLog(catcher) ==
  CASE lastSave'.result = "skipped" -> <<"Skipping existing file">>
    [] lastSave'.result = "written" -> <<"Saved">>
    [] lastSave'.result = "threw" -> <<catcher>>
    [] OTHER -> <<>>

\* a write that threw was a fault
FaultsAfterSave == IF lastSave'.result = "threw" THEN faults + 1 ELSE faults

\* mutant of MarkdownOf: the body is saved as it came
MarkdownOf_Raw(r, originalUrl) == r.data

\* downloadMarkdown, lines 253-266: what is saved for a response
MarkdownOf(r, originalUrl) ==
  IF isActuallyHtml(r) THEN turndown(extractContent(r.data, originalUrl)) ELSE r.data

\* mutant of OnDownloadFailure: the HTML of the page is converted and saved
\* instead
OnDownloadFailure_ConvertHtml ==
  \E filePath \in {getFilePath(cur.url, SiteDir(startUrl))},
     markdown \in {turndown(extractContent(html, cur.url))} :
    /\ saveMarkdown(markdown, filePath, cur.url, TRUE)
    /\ logged' = <<"Failed to download markdown">>

\* lines 267-269: the catch of downloadMarkdown after a failed axios.get
OnDownloadFailure ==
  /\ lastSave' = NoSave
  /\ logged' = <<"Failed to download markdown">>
  /\ UNCHANGED <<files, writes>>

\* lines 107-110 of processPage and downloadMarkdown; every failure inside
\* downloadMarkdown is caught at line 267
DownloadMarkdown ==
  /\ pc = "download"
  /\ lastReq' = Req("GET", mdUrl)
  /\ waited' = 0
  /\ \E r \in MdResponses(mdUrl, cur.url) :
       IF r = Fail
       THEN /\ MayFault
            /\ faults' = faults + 1
            /\ lastBody' = NoBody
            /\ OnDownloadFailure
       ELSE \E fsOk \in FsOutcomes, filePath \in {getFilePath(cur.url, SiteDir(startUrl))},
               markdown \in {MarkdownOf(r, cur.url)} :
              /\ saveMarkdown(markdown, filePath,
                              IF isActuallyHtml(r) THEN cur.url ELSE mdUrl,
                              fsOk)
              /\ faults' = FaultsAfterSave
              /\ lastBody' = r.data
              /\ logged' = (IF isActuallyHtml(r) THEN <<"returned HTML, converting">> ELSE <<>>)
                            \o SaveLog("Failed to download markdown")
  /\ EndPage
  /\ UNCHANGED <<config, bulk, extraction, startUrl, queue, visited, processed, failed>>

\* mutant of PreferMarkdown: the flag is not consulted
PreferMarkdown_Ignored == FALSE

\* lines 102-103, 114: config.preferMarkdown of the seed hostname's record
PreferMarkdown == ConfigOf(Hostname(startUrl)).preferMarkdown

\* lines 113-126 of processPage; an exception of saveMarkdown is caught at
\* line 77 of download
ConvertHtml ==
  /\ pc = "fallback"
  /\ lastReq' = NoReq
  /\ waited' = 0
  /\ lastBody' = NoBody

  /\ IF PreferMarkdown
     THEN /\ lastSave' = NoSave
          /\ logged' = <<"No markdown version found, skipping">>
          /\ UNCHANGED <<files, writes, faults>>
     ELSE \E fsOk \in FsOutcomes, filePath \in {getFilePath(cur.url, SiteDir(startUrl))},
             markdown \in {turndown(extractContent(html, cur.url))} :
            /\ saveMarkdown(markdown, filePath, cur.url, fsOk)
            /\ faults' = FaultsAfterSave
            /\ logged' = <<"Converting HTML">> \o SaveLog("Failed to process")
  /\ EndPage
  /\ UNCHANGED <<config, bulk, extraction, startUrl, queue, visited, processed, failed>>

(***************************************************************************)
(* Specifications                                                          *)
(***************************************************************************)
Next ==
  \/ \E u \in Seeds : Download(u)
  \/ Dequeue
  \/ Return
  \/ Delay
  \/ FetchPage
  \/ ProbeHead
  \/ ProbeGet
  \/ DownloadMarkdown
  \/ ConvertHtml

Spec == Init /\ [][Next]_vars

\* the site lists the bulk command reads from env.md
EnvFiles == {<<GH, GH>>, <<GH, GH2, GH>>}

\* the bulk command (part_001, lines 75-79) passes maxDepth, outputDir and
\* force, and no configFile
BulkInit ==
  /\ options \in [maxDepth : 0..MaxOptDepth, force : BOOLEAN, includeMetadata : {FALSE}]
  /\ maxDepth = Constructor_maxDepth(options.maxDepth)
  /\ siteConfig = NoConfig
  /\ files \in InitialFiles
  /\ pc = "idle"
  /\ startUrl = <<>>
  /\ queue = <<>>
  /\ visited = {}
  /\ cur = NoEntry
  /\ attempt = 0
  /\ html = NoBody
  /\ cand = 0
  /\ mdUrl = Null
  /\ processed = <<>>
  /\ writes = <<>>
  /\ failed = {}
  /\ lastReq = NoReq
  /\ lastSave = NoSave
  /\ waited = 0
  /\ lastBody = NoBody
  /\ logged = <<>>
  /\ faults = 0
  /\ urls \in EnvFiles
  /\ earlier = {}
  /\ dom = NoDom
  /\ extracted = NoContent

BulkNext ==
  \/ BulkDownload
  \/ Dequeue
  \/ Return
  \/ Delay
  \/ FetchPage
  \/ ProbeHead
  \/ ProbeGet
  \/ DownloadMarkdown
  \/ ConvertHtml

BulkSpec == BulkInit /\ [][BulkNext]_vars

\* the event loop runs every pending continuation of the bulk command
BulkFairSpec == BulkSpec /\ WF_vars(BulkNext)

\* the event loop runs every pending continuation: no step waits forever
FairSpec == Spec /\ WF_vars(Next)

(***************************************************************************)
(* extractContent on its own.  A parsed document is a record:              *)
(*   matches  selector -> length of the trimmed inner HTML of its first    *)
(*            match, for the selectors that match                          *)
(*   blocks   the div, section and article elements in document order:     *)
(*            text length, and whether a nav, footer or sidebar is inside  *)
(***************************************************************************)
\* the contentSelector of the README's config.json example
contentSelector == ".markdown-body, .content, main"

\* lines 338-343
mintlifySelectors ==
  <<".prose, .mdx-prose", "[data-content=\"true\"]", ".docs-content", ".main-content">>

\* lines 356-363
nextraSelectors ==
  <<"main article", ".nextra-content", ".nextra-body-full", "[data-nextra-content]",
    "main .container", "main">>

\* lines 374-385
selectors ==
  <<"main", ".content", ".documentation", ".docs-content", ".markdown-body", "article",
    "#content", ".main-content", "[role=\"main\"]", ".prose">>

\* $(selector).html(), by length: 0 when nothing matches
InnerLength(d, sel) == IF sel \in DOMAIN d.matches THEN d.matches[sel] ELSE 0

\* mutant of LongEnough: a content of exactly 100 characters is taken
LongEnough_AtLeast(n) == n >= 100

\* content && content.trim().length > 100
LongEnough(n) == n > 100

\* the for loop over a selector list: index of the first selector whose
\* content is long enough, 0 when the loop ends without a return
FirstLongEnough(d, list) ==
  IF \E i \in 1..Len(list) : LongEnough(InnerLength(d, list[i]))
  THEN CHOOSE i \in 1..Len(list) :
         /\ LongEnough(InnerLength(d, list[i]))
         /\ \A j \in 1..(i - 1) : ~ LongEnough(InnerLength(d, list[j]))
  ELSE 0

\* line 337: hostname.includes('mintlify') || url.includes('docs.')
IsMintlify(url) == Contains(Hostname(url), {<<"mintlify">>}) \/ Contains(url, {<<"docs.">>})

\* line 355: hostname.includes('thegraph.com')
IsTheGraph(url) == Contains(Hostname(url), {<<"thegraph.com">>})

\* lines 394-397: the blocks with more than 200 characters of text and no
\* nav, footer or sidebar inside
TextBlocks(d) ==
  SelectSeq(Indices(Len(d.blocks)),
            LAMBDA i : d.blocks[i].text > 200 /\ ~ d.blocks[i].nested)

\* lines 400-402: reduce keeps the earlier block unless the later is longer
Largest(d, blocks) ==
  blocks[CHOOSE k \in 1..Len(blocks) :
           /\ \A j \in 1..Len(blocks) : d.blocks[blocks[j]].text <= d.blocks[blocks[k]].text
           /\ \A j \in 1..(k - 1) : d.blocks[blocks[j]].text < d.blocks[blocks[k]].text]

FromSelector(family, sel) == [from |-> "selector", of |-> <<family, sel>>]

\* extractContent, lines 315-407: which element's HTML is returned
ExtractedContent(d, url) ==
  LET cfg == ConfigOf(Hostname(url))
      m == FirstLongEnough(d, mintlifySelectors)
      n == FirstLongEnough(d, nextraSelectors)
      g == FirstLongEnough(d, selectors)
      blocks == TextBlocks(d)
  IN IF cfg.preferMarkdown THEN [from |-> "empty", of |-> <<>>]
     ELSE IF "contentSelector" \in DOMAIN cfg
             /\ LongEnough(InnerLength(d, cfg.contentSelector))
     THEN FromSelector("config", cfg.contentSelector)
     ELSE IF IsMintlify(url) /\ m > 0 THEN FromSelector("mintlify", mintlifySelectors[m])
     ELSE IF IsTheGraph(url) /\ n > 0 THEN FromSelector("nextra", nextraSelectors[n])
     ELSE IF g > 0 THEN FromSelector("common", selectors[g])
     ELSE IF Len(blocks) > 0 THEN [from |-> "block", of |-> <<Largest(d, blocks)>>]
     ELSE [from |-> "body", of |-> <<>>]

\* the most selectors that match in a document of the model
MaxMatches == 2

AllSelectors ==
  {contentSelector} \cup Range(mintlifySelectors) \cup Range(nextraSelectors)
  \cup Range(selectors)

\* inner HTML at the threshold and just above it
Lengths == {100, 101}

\* the match tables with at most n matching selectors
RECURSIVE MatchesUpTo(_)
MatchesUpTo(n) ==
  IF n = 0 THEN {NoMatches}
  ELSE LET M == MatchesUpTo(n - 1)
       IN M \cup { m @@ (sel :> len) : m \in M, sel \in AllSelectors, len \in Lengths }

Block(text, nested) == [text |-> text, nested |-> nested]

\* the block lists of the documents
BlockLists ==
  { <<>>,
    <<Block(200, FALSE)>>,
    <<Block(201, FALSE), Block(300, TRUE), Block(250, FALSE), Block(250, FALSE)>>,
    <<Block(300, TRUE)>> }

Doms == [matches : MatchesUpTo(MaxMatches), blocks : BlockLists]

\* pages of a Mintlify site, of The Graph's docs, and of The Graph's site
Mint == U(<<"x", ".", "mintlify", ".", "app">>, <<"/">>)
DocsGraph == U(<<"docs.", "thegraph.com">>, <<"/">>)
Graph == U(<<"thegraph.com">>, <<"/">>)

ExtractUrls == {Root, Mint, DocsGraph, Graph}

ExtractConfigs ==
  { NoConfig,
    (<<"h">> :> [preferMarkdown |-> FALSE, contentSelector |-> contentSelector]),
    (<<"h">> :> [preferMarkdown |-> TRUE, contentSelector |-> contentSelector]) }

\* a page has been parsed and extractContent($, url) is about to be called
ExtractInit ==
  /\ options = [maxDepth |-> 0, force |-> FALSE, includeMetadata |-> FALSE]
  /\ maxDepth = Constructor_maxDepth(options.maxDepth)
  /\ siteConfig \in ExtractConfigs
  /\ files = NoFiles
  /\ pc = "extract"
  /\ startUrl \in ExtractUrls
  /\ queue = <<>>
  /\ visited = {startUrl}
  /\ cur = [url |-> startUrl, depth |-> 0]
  /\ attempt = 0
  /\ html = Doc(startUrl)
  /\ cand = 0
  /\ mdUrl = Null
  /\ processed = <<cur>>
  /\ writes = <<>>
  /\ failed = {}
  /\ lastReq = NoReq
  /\ lastSave = NoSave
  /\ waited = 0
  /\ lastBody = NoBody
  /\ logged = <<>>
  /\ faults = 0
  /\ urls = <<>>
  /\ earlier = {}
  /\ dom \in Doms
  /\ extracted = NoContent

\* const content = this.extractContent($, url)
Extract ==
  /\ pc = "extract"
  /\ extracted' = ExtractedContent(dom, cur.url)
  /\ pc' = "extracted"
  /\ UNCHANGED <<config, bulk, dom, files, startUrl, queue, visited, locals, history, faults>>

ExtractNext == Extract

ExtractSpec == ExtractInit /\ [][ExtractNext]_vars

(***************************************************************************)
(* Properties                                                              *)
(***************************************************************************)
SeedPath == getFilePath(startUrl, SiteDir(startUrl))

CurPath == getFilePath(cur.url, SiteDir(startUrl))

InQueue(u) == \E i \in 1..Len(queue) : queue[i].url = u

\* the URLs within n links of the seed in the site's link graph
RECURSIVE Within(_)
Within(n) ==
  IF n = 0 THEN {startUrl}
  ELSE LET W == Within(n - 1)
       IN W \cup UNION { {Href(l) : l \in {x \in Range(Links(u)) : ParseOk(x)}} : u \in W }

\* C1: within one run processPage is entered at most once for every URL,
\* however often the URL was queued.
VisitedOnce ==
  \A i, j \in 1..Len(processed) : i # j => processed[i].url # processed[j].url

\* a URL has been processed while a second entry for it, queued at a greater
\* depth by another page before that, is still in the queue
VisitedOnce_Witness ==
  \E i \in 1..Len(queue), k \in 1..Len(processed) :
    /\ queue[i].url = processed[k].url
    /\ queue[i].depth > processed[k].depth

\* C2 (as claimed): with the depth option d, only pages within d links of the
\* seed are processed or written, and no queued entry is deeper than d + 1.
DepthBound ==
  /\ \A k \in 1..Len(processed) : processed[k].url \in Within(options.maxDepth)
  /\ \A k \in 1..Len(writes) : writes[k].page \in Within(options.maxDepth)
  /\ \A i \in 1..Len(queue) : queue[i].depth <= options.maxDepth + 1

\* C3 (as claimed): with the depth option 0 only the seed is processed and
\* only the seed's file is written.
DepthZeroRun ==
  options.maxDepth = 0 =>
    /\ visited \subseteq {startUrl}
    /\ \A k \in 1..Len(writes) : writes[k].page = startUrl /\ writes[k].path = SeedPath

\* C4: every entry of the queue has the hostname of the seed.
DomainRestriction ==
  \A i \in 1..Len(queue) : Hostname(queue[i].url) = Hostname(startUrl)

\* the links of a page with a link to another host have been queued
DomainRestriction_Witness ==
  /\ pc = "head"
  /\ cand = 1
  /\ LinksWanted(cur.depth)
  /\ Ext \in Range(Links(cur.url))
  /\ \E l \in Range(Links(cur.url)) : InQueue(l)

\* C5 (as claimed): every HTTP request goes to the hostname of the seed.
SameHostRequests ==
  lastReq.method # "none" => Hostname(lastReq.url) = Hostname(startUrl)

\* C6: with force off and a file at the page's path, the step that persists
\* the page writes nothing, saveMarkdown (when reached) skips without an
\* error, and the loop goes on with the queue as it was.
IncrementalSkip ==
  [][ (pc \in {"download", "fallback"} /\ ~ options.force /\ CurPath \in DOMAIN files)
      => /\ files' = files
         /\ writes' = writes
         /\ pc' = "loop"
         /\ queue' = queue
         /\ lastSave'.result # "none"
              => /\ lastSave' = [result |-> "skipped", page |-> cur.url, path |-> CurPath]
                 /\ logged'[Len(logged')] = "Skipping existing file"
                 /\ "Failed to process" \notin Range(logged')
                 /\ "Failed to download markdown" \notin Range(logged') ]_vars

\* saveMarkdown has skipped an existing file and entries are left to process
IncrementalSkip_Witness ==
  /\ lastSave.result = "skipped"
  /\ ~ options.force
  /\ lastSave.path \in DOMAIN files
  /\ pc = "loop"
  /\ queue # <<>>

PreferMarkdownSkip ==
  [][ (pc = "fallback" /\ ConfigOf(Hostname(startUrl)).preferMarkdown)
      => /\ files' = files
         /\ writes' = writes
         /\ lastSave' = NoSave
         /\ logged' = <<"No markdown version found, skipping">>
         /\ pc' = "loop"
         /\ queue' = queue
         /\ cur.depth < maxDepth
              => \A l \in Range(UniqueLinks(Links(cur.url), startUrl)) :
                   l \in visited \/ InQueue(l) ]_vars

\* a page was skipped for preferMarkdown and its links wait in the queue
PreferMarkdownSkip_Witness ==
  /\ logged = <<"No markdown version found, skipping">>
  /\ siteConfig # NoConfig
  /\ writes = <<>>
  /\ \E l \in Range(Links(processed[Len(processed)].url)) : InQueue(l)

\* C9: when the third attempt to fetch a page fails, no link is queued, no
\* probe request is issued, nothing is written, the loop goes on; when the
\* page is the seed the run returns with nothing written.
TerminalFetchFailure ==
  /\ [][ (pc = "fetch" /\ attempt = 3 /\ lastBody' = NoBody)
         => /\ queue' = queue
            /\ files' = files
            /\ writes' = writes
            /\ lastReq' = Req("GET", cur.url)
            /\ logged' = <<"Failed to fetch">>
            /\ pc' = "loop"
            /\ cur.url = startUrl => queue' = <<>> /\ writes' = <<>> ]_vars
  /\ [](pc = "returned" /\ startUrl \in failed => writes = <<>> /\ visited = {startUrl})
  /\ [](pc # "rejected" \/ processed = <<>>)

\* a page other than the last one processed was abandoned after three attempts
TerminalFetchFailure_Witness ==
  \E k \in 1..Len(processed) :
    /\ processed[k].url \in failed
    /\ k < Len(processed)
    /\ writes # <<>>

\* C10: a run that entered the loop returns with an empty queue.
Termination == (pc = "loop") ~> (pc = "returned" /\ queue = <<>>)

\* a run over the link cycle Root -> PA -> PC -> Root has returned
Termination_Witness ==
  /\ pc = "returned"
  /\ {Root, PA, PC} \subseteq visited
  /\ Root \in Range(Links(PC))

\* C11: every download() call of one instance enters its loop with an empty
\* visited set and the frontier [(startUrl, 0)], whatever earlier runs left
\* behind; visited holds the URLs of this run only, so that an entry within
\* the depth bound is processed although an earlier run processed its URL.
RunIsolation ==
  [][ /\ (pc \in {"idle", "returned", "rejected"} /\ pc' = "loop")
         => /\ visited' = {}
            /\ queue' = <<[url |-> startUrl', depth |-> 0]>>
      /\ pc' \notin {"idle", "rejected"} => visited' = ProcessedUrls'
      /\ (pc = "loop" /\ queue # <<>> /\ Head(queue).url \notin ProcessedUrls
             /\ Head(queue).depth <= maxDepth)
         => cur' = Head(queue) /\ pc' = "delay" ]_vars

\* a later run of the instance processes a URL that an earlier run processed
RunIsolation_Witness ==
  /\ pc = "fetch"
  /\ cur.url \in earlier
  /\ cur.depth > 0

\* C12: in bulk mode the sites are taken in order, one download() each, and
\* after a download() that rejected (the output directory could not be
\* created) download() is still attempted for every later site.
BulkFaultIsolation ==
  /\ [][urls' # urls => urls' = Tail(urls) /\ startUrl' = Head(urls)]_vars
  /\ (pc = "rejected" /\ urls # <<>>) ~> (urls = <<>> /\ pc \in {"returned", "rejected"})

\* every download() before the last one rejected, and the last site's run
\* has returned
BulkFaultIsolation_Witness ==
  /\ urls = <<>>
  /\ earlier = {}
  /\ pc = "returned"
  /\ processed # <<>>

\* the latest step ended a page with a failure: fetchPage gave up, the
\* download of the markdown version failed, or saveMarkdown threw
PageFailed ==
  \/ lastSave.result = "threw"
  \/ "Failed to fetch" \in Range(logged)
  \/ "Failed to download markdown" \in Range(logged)

\* C13: an exception raised while a page is processed is caught: the step
\* hands control back to the loop with the frontier as it was, every entry
\* left in the frontier is dequeued afterwards and the run returns;
\* download() rejects only before its loop.
PageFailureContained ==
  /\ [][lastSave'.result = "threw" => pc' = "loop" /\ queue' = queue]_vars
  /\ [][pc' = "rejected" => pc = "idle"]_vars
  /\ (PageFailed /\ queue # <<>>) ~> (pc = "returned" /\ queue = <<>>)

\* saveMarkdown threw in the HTML path, the exception was caught by the loop
\* and entries are left in the frontier
PageFailureContained_Witness ==
  /\ lastSave.result = "threw"
  /\ logged = <<"Converting HTML", "Failed to process">>
  /\ pc = "loop"
  /\ queue # <<>>

\* the record of the seed hostname in the config file has the field
HasSiteField(field) ==
  /\ Hostname(startUrl) \in DOMAIN siteConfig
  /\ field \in DOMAIN siteConfig[Hostname(startUrl)]

\* the maxDepth of the seed hostname's record when present, else the global one
EffectiveMaxDepth ==
  IF HasSiteField("maxDepth") THEN siteConfig[Hostname(startUrl)].maxDepth ELSE maxDepth

\* C14: the loop processes a dequeued entry unless its URL is visited or its
\* depth exceeds the effective maximum depth, and a fetched page has its
\* links queued exactly when its depth is below the effective maximum depth.
EffectiveDepthBound ==
  [][ /\ (pc = "loop" /\ queue # <<>>)
         => (pc' = "delay"
               <=> ~ (Head(queue).url \in visited \/ Head(queue).depth > EffectiveMaxDepth))
      /\ (pc = "fetch" /\ pc' = "head")
         => queue' = IF cur.depth < EffectiveMaxDepth
                     THEN findAndQueueLinks(queue, visited, cur.url, startUrl, cur.depth)
                     ELSE queue ]_vars

\* the URL matches a skipPatterns entry of the seed hostname's record
SiteSkipped(url) ==
  /\ HasSiteField("skipPatterns")
  /\ Contains(url, siteConfig[Hostname(startUrl)].skipPatterns)

\* C15: no discovered link that matches a pattern of the default skip list
\* or a skipPatterns entry of the seed hostname's site config is in the
\* queue, and none is processed.
SkipPatternsHonoured ==
  /\ \A i \in 1..Len(queue) :
       queue[i].depth > 0 => ~ shouldSkipUrl(queue[i].url) /\ ~ SiteSkipped(queue[i].url)
  /\ \A k \in 1..Len(processed) :
       processed[k].depth > 0 => ~ shouldSkipUrl(processed[k].url) /\ ~ SiteSkipped(processed[k].url)

\* C16: the path of every save is getFilePath of the page URL and the site
\* directory and of nothing else, the same page never gets two paths, and
\* "https://h" and "https://h/" derive the same path, which ends in index.md.
PathDerivation ==
  /\ \A k \in 1..Len(writes) :
       writes[k].path = getFilePath(writes[k].page, SiteDir(startUrl))
  /\ lastSave.result # "none" => lastSave.path = getFilePath(lastSave.page, SiteDir(startUrl))
  /\ \A i, j \in 1..Len(writes) :
       writes[i].page = writes[j].page => writes[i].path = writes[j].path
  /\ getFilePath(RootNS, SiteDir(Root)) = getFilePath(Root, SiteDir(Root))
  /\ \E p \in {getFilePath(RootNS, SiteDir(Root))} :
       Len(p) >= 2 /\ SubSeq(p, Len(p) - 1, Len(p)) = <<"index", ".md">>

\* the page https://h/ has been written to downloads/h/index.md, and a page
\* with a trailing slash to the path of the page without it
PathDerivation_Witness ==
  /\ \E k \in 1..Len(writes) :
       /\ writes[k].page = Root
       /\ writes[k].path = <<"downloads", "/", "h", "/", "index", ".md">>
  /\ \E k \in 1..Len(writes) :
       /\ writes[k].page = PAS
       /\ writes[k].path = <<"downloads", "/", "h", "/", "a", ".md">>

\* C17: no request of a run goes to a URL that the robots.txt of the site
\* disallows, and no such URL is processed.
RespectsRobots ==
  /\ lastReq.url \notin Disallowed
  /\ \A k \in 1..Len(processed) : processed[k].url \notin Disallowed

\* the content types of the relaxed test: blank, text/plain, a markdown
\* type, application/octet-stream
RelaxedTypes == {"", "text/plain", "text/markdown", "application/octet-stream"}

\* the latest step was the probe request of the current candidate, answered
\* with r
ProbedWith(r, mdUrls) == HeadStep(r, mdUrls) \/ GetStep(r, mdUrls)

\* the answers without a body that a probe request may get
BodilessResponses(m) ==
  {r \in HeadResponses(m) \cup RangeResponses(m) : r # Fail /\ r.data = NoBody}

\* C18 as stated: a candidate answered without a body is accepted only if
\* the status is 200 or 206 and the content type is blank, text/plain, a
\* markdown type or application/octet-stream (and so not text/html); with
\* any other content type it is rejected.
HeaderAcceptance ==
  [][ (pc \in {"head", "get"}) =>
        (\A mdUrls \in {possibleMdUrls(cur.url)} :
          \A r \in BodilessResponses(mdUrls[cand]) :
            (ProbedWith(r, mdUrls) /\ pc' = "download")
              => (/\ r.status \in {200, 206}
                  /\ r.ctype \in RelaxedTypes
                  /\ r.ctype # "text/html; charset=utf-8") )]_vars

\* C18, amended: a candidate answered without a body is accepted exactly
\* when the status is 200 or 206, the content type is not text/html, and
\* the content type is blank, text/plain, a markdown type or
\* application/octet-stream or the candidate URL ends in ".md".
HeaderAcceptanceOrMdSuffix ==
  [][ (pc \in {"head", "get"}) =>
        (\A mdUrls \in {possibleMdUrls(cur.url)} :
          \A r \in BodilessResponses(mdUrls[cand]) :
            ProbedWith(r, mdUrls)
              => (pc' = "download"
                    <=> (/\ r.status \in {200, 206}
                         /\ r.ctype \in RelaxedTypes \/ EndsWith(mdUrls[cand], ".md")
                         /\ r.ctype # "text/html; charset=utf-8")) )]_vars

\* the HEAD of a candidate ending in ".md" was accepted without a body
HeaderAcceptanceOrMdSuffix_Witness ==
  /\ pc = "download"
  /\ lastReq.method = "HEAD"
  /\ lastBody = NoBody
  /\ EndsWith(mdUrl, ".md")

\* C19: the probe starts with the first candidate and requests the
\* candidates in list order, one index at a time; on the first accepted
\* candidate it returns that URL and requests no later one; a failed
\* request moves on to the next candidate; after the last candidate it
\* returns none; it never leaves processPage with an exception.
ProbeOrder ==
  [][ /\ (pc = "fetch" /\ pc' = "head") => cand' = 1
      /\ (pc \in {"head", "get"}) =>
           (\A mdUrls \in {possibleMdUrls(cur.url)} :
              /\ lastReq'.url = mdUrls[cand]
              /\ lastReq'.method = (IF pc = "head" THEN "HEAD" ELSE "GET-RANGE")
              /\ pc' \in {"head", "get", "download", "fallback"}
              /\ pc' = "get" => pc = "head" /\ cand' = cand
              /\ pc' = "head" => cand' = cand + 1 /\ cand < Len(mdUrls) /\ mdUrl' = Null
              /\ pc' = "download" => mdUrl' = mdUrls[cand]
              /\ pc' = "fallback" => cand = Len(mdUrls) /\ mdUrl' = Null
              /\ GetStep(Fail, mdUrls) => pc' = (IF cand < Len(mdUrls) THEN "head" ELSE "fallback")
              /\ cur' = cur /\ queue' = queue)
      /\ (pc = "download") =>
           (lastReq' = Req("GET", mdUrl) /\ pc' = "loop") ]_vars

\* the eighth candidate of a page was accepted after the seven before it
\* did not qualify
ProbeOrder_Witness ==
  /\ pc = "download"
  /\ cur.url = GH
  /\ mdUrl = possibleMdUrls(GH)[8]
  /\ mdUrl = U(<<"raw.githubusercontent.com">>, <<"/", "o", "/", "r">>)

\* C20: every candidate entry is entered with a HEAD request; the ranged
\* GET follows only a HEAD of the same entry that failed, never one that was
\* answered; neither request is repeated for the entry.
ProbeProtocol ==
  [][ /\ (cand' # cand /\ cand' > 0) => pc' = "head"
      /\ (pc \in {"head", "get"}) =>
           (\A mdUrls \in {possibleMdUrls(cur.url)} :
              /\ pc = "head" => lastReq' = Req("HEAD", mdUrls[cand])
              /\ pc = "get" => lastReq' = Req("GET-RANGE", mdUrls[cand])
                                 /\ lastReq = Req("HEAD", mdUrls[cand])
              /\ pc' = "get" => pc = "head" /\ cand' = cand /\ HeadStep(Fail, mdUrls)
              /\ \A r \in HeadResponses(mdUrls[cand]) \ {Fail} :
                   HeadStep(r, mdUrls) => pc' # "get"
              /\ ~ (pc' = pc /\ cand' = cand)
              /\ ~ (pc = "get" /\ pc' = "head" /\ cand' = cand))
      /\ (pc' \in {"head", "get"} /\ pc \notin {"head", "get"}) => (pc' = "head" /\ cand' = 1)
    ]_vars

\* the HEAD of a candidate failed and its ranged GET, answered with markdown,
\* was accepted
ProbeProtocol_Witness ==
  /\ pc = "download"
  /\ lastReq.method = "GET-RANGE"
  /\ lastReq.url = mdUrl
  /\ lastBody.kind = "md"

\* C21: fetchPage starts with attempt 1 and issues one GET of the page per
\* attempt, at most three; an answered attempt ends it with the response; a
\* failed first or second attempt is followed by a wait of 1000 ms or
\* 2000 ms and the next attempt; a failed third attempt is followed by no
\* wait and ends the page with null, the loop going on.
FetchRetry ==
  [][ /\ (pc' = "fetch" /\ pc # "fetch") => attempt' = 1
      /\ (pc = "fetch") =>
           (/\ attempt \in 1..3
            /\ lastReq' = Req("GET", cur.url)
            /\ lastBody' # NoBody
                 => (pc' = "head" /\ html' = lastBody' /\ waited' = 0 /\ failed' = failed)
            /\ (lastBody' = NoBody /\ attempt < 3)
                 => (/\ pc' = "fetch" /\ attempt' = attempt + 1
                     /\ waited' = (IF attempt = 1 THEN 1000 ELSE 2000)
                     /\ failed' = failed)
            /\ (lastBody' = NoBody /\ attempt = 3)
                 => (/\ pc' = "loop" /\ waited' = 0
                     /\ failed' = failed \cup {cur.url}
                     /\ logged' = <<"Failed to fetch">>)) ]_vars

\* the third attempt for a page is due after two failures and a wait of
\* 2000 ms
FetchRetry_Witness ==
  /\ pc = "fetch"
  /\ attempt = 3
  /\ waited = 2000
  /\ logged = <<"Attempt failed">>

\* a page is being processed
InPage == pc \in {"delay", "fetch", "head", "get", "download", "fallback"}

\* C22: a page is entered from the loop by adding its URL to visited, with
\* no request; then the delay of 500 ms elapses, then the page is fetched,
\* its links being queued in the step that receives the HTML, then the
\* probe runs, and only after the probe a file is written; the HTML of the
\* page has been fetched when a markdown version is downloaded; visited
\* never loses a URL during the run.
PageEventOrder ==
  [][ /\ pc # "idle" => visited \subseteq visited'
      /\ InPage' => cur'.url \in visited'
      /\ pc' = "delay" => (pc = "loop" /\ cur'.url \notin visited /\ lastReq' = NoReq)
      /\ (pc' = "fetch" /\ pc # "fetch")
           => (pc = "delay" /\ waited' = 500 /\ lastReq' = NoReq)
      /\ (pc' = "head" /\ pc \notin {"head", "get"})
           => (pc = "fetch" /\ lastReq' = Req("GET", cur.url) /\ html' = Doc(cur.url))
      /\ queue' # queue => pc \in {"idle", "loop", "fetch"}
      /\ pc' \in {"download", "fallback"} => pc \in {"head", "get"}
      /\ (writes' # writes \/ files' # files) => pc \in {"download", "fallback"}
      /\ pc' = "download" => html' = Doc(cur'.url)
      /\ lastReq'.method # "none" => (InPage /\ pc # "delay")
    ]_vars

\* a markdown version is about to be downloaded for a page whose HTML was
\* fetched and whose links are in the queue
PageEventOrder_Witness ==
  /\ pc = "download"
  /\ html = Doc(cur.url)
  /\ cur.url \in visited
  /\ \E i \in 1..Len(queue) : queue[i].depth = cur.depth + 1

\* C23: when the GET of the candidate that the probe returned fails, the
\* step writes no file, does not convert the HTML of the page, logs the
\* failure and returns to the loop with the queue as it was; after the
\* download step of a page no other step of the page follows.
MarkdownDownloadFailure ==
  [][ (pc = "download") =>
        (/\ lastReq' = Req("GET", mdUrl)
         /\ pc' = "loop"
         /\ queue' = queue
         /\ lastBody' = NoBody
              => (/\ files' = files
                  /\ writes' = writes
                  /\ lastSave' = NoSave
                  /\ logged' = <<"Failed to download markdown">>)) ]_vars

\* the download of the seed's markdown version failed: nothing is written
\* and the links of the seed wait in the queue
MarkdownDownloadFailure_Witness ==
  /\ pc = "loop"
  /\ lastReq.method = "GET"
  /\ lastBody = NoBody
  /\ logged = <<"Failed to download markdown">>
  /\ Len(processed) = 1
  /\ writes = <<>>
  /\ queue # <<>>

\* C24: for a page whose hostname has preferMarkdown set, a file is written
\* only with a native markdown body, on every path.
PreferMarkdownNeverHtml ==
  \A k \in 1..Len(writes) :
    ConfigOf(Hostname(writes[k].page)).preferMarkdown
      => writes[k].content.body.kind = "md"

\* the selector strategies that apply to the page, in the order in which
\* extractContent tries them, as <<family, selector>>
StrategyOrder ==
  (IF "contentSelector" \in DOMAIN ConfigOf(Hostname(cur.url))
   THEN <<(<<"config", ConfigOf(Hostname(cur.url)).contentSelector>>)>> ELSE <<>>)
  \o (IF IsMintlify(cur.url)
      THEN [i \in 1..Len(mintlifySelectors) |-> <<"mintlify", mintlifySelectors[i]>>] ELSE <<>>)
  \o (IF IsTheGraph(cur.url)
      THEN [i \in 1..Len(nextraSelectors) |-> <<"nextra", nextraSelectors[i]>>] ELSE <<>>)
  \o [i \in 1..Len(selectors) |-> <<"common", selectors[i]>>]

WrittenOnce ==
  \A i, j \in 1..Len(writes) : i # j => writes[i].path # writes[j].path

\* C27: no entry of the queue is deeper than this.maxDepth, and an entry
\* that the loop drops without processing it has a visited URL.
FrontierWithinBound ==
  /\ [](\A i \in 1..Len(queue) : queue[i].depth <= maxDepth)
  /\ [][ (pc = "loop" /\ queue # <<>> /\ pc' = "loop")
          => (Head(queue).url \in visited /\ Head(queue).depth <= maxDepth) ]_vars

\* the loop is about to drop an entry within the depth bound whose URL was
\* processed before
FrontierWithinBound_Witness ==
  /\ pc = "loop"
  /\ queue # <<>>
  /\ Head(queue).url \in visited
  /\ Head(queue).depth > 0
  /\ Head(queue).depth <= maxDepth

\* the pages of this run whose fetchPage returned a response
Fetched ==
  (ProcessedUrls \ failed) \ (IF pc \in {"delay", "fetch"} THEN {cur.url} ELSE {})

\* the same-host links of a page that match no skip pattern
KeptLinksFrom ==
  [base \in Seeds |->
    [u \in Pages |-> {Href(l) : l \in {x \in Range(Links(u)) : LinkKept(x, base)}}]]

KeptLinks(u) == KeptLinksFrom[startUrl][u]

\* the URLs within n hops of the seed, hops leaving fetched pages only
RECURSIVE FetchedWithin(_)
FetchedWithin(n) ==
  IF n = 0 THEN {startUrl}
  ELSE UNION { W \cup UNION {KeptLinks(u) : u \in W \cap Fetched} :
                 W \in {FetchedWithin(n - 1)} }

\* C28: the depths of the pages of a run are non-decreasing in the order of
\* processing, and every page is processed at its hop distance from the
\* seed in the graph of the fetched pages' same-host, non-skipped links.
BreadthFirst ==
  /\ \A i, j \in 1..Len(processed) : i < j => processed[i].depth <= processed[j].depth
  /\ \A k \in 1..Len(processed) :
       /\ processed[k].url \in FetchedWithin(processed[k].depth)
       /\ processed[k].depth > 0 => processed[k].url \notin FetchedWithin(processed[k].depth - 1)

\* /d, linked from the seed and from /a, was processed at depth 1, and /c,
\* linked from /a only, at depth 2
BreadthFirst_Witness ==
  /\ \E k \in 1..Len(processed) : processed[k] = [url |-> PD, depth |-> 1]
  /\ \E k \in 1..Len(processed) : processed[k] = [url |-> PC, depth |-> 2]
  /\ PA \in Fetched
  /\ PD \in KeptLinks(PA)

\* how many times a URL was processed in this run
TimesProcessed(u) == Cardinality({k \in 1..Len(processed) : processed[k].url = u})

\* C29: when a run has returned, every URL within the stored depth bound of
\* the seed over fetched pages' same-host, non-skipped links is in the
\* visited set and was processed exactly once.
Coverage ==
  pc = "returned" =>
    \A u \in FetchedWithin(maxDepth) : u \in visited /\ TimesProcessed(u) = 1

\* a run returned in which /a failed to load and /c, two hops from the
\* seed through /a/ only, was still processed
Coverage_Witness ==
  /\ pc = "returned"
  /\ PA \in failed
  /\ PAS \in Fetched
  /\ PC \in FetchedWithin(maxDepth) \ FetchedWithin(1)
  /\ TimesProcessed(PC) = 1

\* the pages of this run whose content was written to a path
WritersOf(path) == {writes[i].page : i \in {k \in 1..Len(writes) : writes[k].path = path}}

\* C30: with force off, a path that had no file when the run began is
\* written at most once in the run, the file keeps the content of the page
\* that wrote it, and saveMarkdown for any later page deriving the same path
\* skips without an error; the page that writes is the first one whose
\* saveMarkdown call finds no file and does not throw.
PathCollision ==
  /\ [](~ Force =>
          \A i \in 1..Len(writes) :
            /\ \A j \in 1..Len(writes) : i # j => writes[i].path # writes[j].path
            /\ writes[i].path \in DOMAIN files
            /\ files[writes[i].path] = writes[i].content)
  /\ [][ (pc \in {"download", "fallback"} /\ ~ Force /\ lastSave'.result # "none")
          => ( IF WritersOf(CurPath) # {}
               THEN /\ lastSave' = [result |-> "skipped", page |-> cur.url, path |-> CurPath]
                    /\ files' = files
                    /\ writes' = writes
                    /\ pc' = "loop"
                    /\ "Failed to process" \notin Range(logged')
                    /\ "Failed to download markdown" \notin Range(logged')
               ELSE CurPath \notin DOMAIN files
                      => \/ lastSave'.result = "threw" /\ files' = files /\ writes' = writes
                         \/ /\ lastSave'.result = "written"
                            /\ writes' = Append(writes, writes'[Len(writes')])
                            /\ writes'[Len(writes')].page = cur.url
                            /\ writes'[Len(writes')].path = CurPath
                            /\ files'[CurPath] = writes'[Len(writes')].content ) ]_vars

\* /a was written to a.md and /a/, which derives the same path, was skipped
PathCollision_Witness ==
  /\ ~ Force
  /\ lastSave = [result |-> "skipped", page |-> PAS, path |-> getFilePath(PA, SiteDir(startUrl))]
  /\ WritersOf(lastSave.path) = {PA}
  /\ files[lastSave.path].body # OldContent

====
